---- MODULE Spec2Model ----
(***************************************************************************)
(* A model of the mini agent platform: a multi-tenant registry of tools    *)
(* and agents (src/main.py, src/models.py), the per-tenant sliding-window  *)
(* rate limiter and the response simulator (src/utils.py), the credential  *)
(* lookup (src/auth.py) and the request-scoped session (src/database.py).  *)
(***************************************************************************)
EXTENDS Integers, Sequences, FiniteSets, TLC

VARIABLES
    tools,              \* rows of table "tools"
    agents,             \* rows of table "agents"
    agent_tools,        \* rows of the association table "agent_tools"
    executions,         \* rows of table "agent_executions", in id order
    request_timestamps, \* utils.request_timestamps: tenant -> list of times
    now,                \* the wall clock read by time.time()
    admitted,           \* history: tenant -> times at which a call was admitted
    last_request,       \* history: tenant -> time of its last call, -1 if none
    resp,               \* the last request and the response it got
    threads             \* per worker thread: position inside check_rate_limit

store == <<tools, agents, agent_tools, executions>>
limiter == <<request_timestamps, admitted, last_request>>
vars == <<tools, agents, agent_tools, executions, request_timestamps, now,
          admitted, last_request, resp, threads>>

(***************************************************************************)
(* Program constants                                                       *)
(***************************************************************************)
RATE_LIMIT == 5
TIME_WINDOW == 60
SUPPORTED_MODELS == {"gpt-4o", "gemini-3"}
API_KEYS == ("sk-key-123" :> "tenant-1") @@ ("sk-key-456" :> "tenant-2")
            @@ ("sk-key-admin" :> "admin-tenant")
responses == << "I have analyzed the data and found significant trends.",
                "Based on your request, I have executed the necessary tools.",
                "Here is the summary you requested based on the provided context.",
                "The calculation is complete. The result is within expected parameters." >>

(***************************************************************************)
(* Bounds of the model and the inputs the requests are drawn from          *)
(***************************************************************************)
MaxTools == 1           \* rows of "tools" under Spec
MaxAgents == 1          \* rows of "agents" under Spec
MaxExecutions == 1      \* rows of "agent_executions" under Spec
StoreMaxTools == 2      \* rows of "tools" under SpecStore
StoreMaxAgents == 2     \* rows of "agents" under SpecStore
MaxTime == 80           \* the clock stops here
MaxCalls == 6           \* admitted calls per tenant under SpecConc
HistoryMaxRuns == 2     \* rows of "agent_executions" under SpecHistory
PartitionMaxCalls == 6  \* admitted calls per tenant under SpecPartition
MaxPromptLen == 5       \* characters of a prompt under SpecSimulator
DelayMaxRuns == 3       \* admitted runs per tenant under SpecDelay
DelayMaxAgents == 2     \* rows of "agents" under SpecDelay

None == "<None>"        \* Python's None (an omitted optional field)
\* Optional[List[int]]: Omitted is None, Given(l) is the list l
Omitted == <<>>
Given(l) == <<l>>
NoHeader == "<absent>"  \* a request that carries no X-API-Key header
ValidKeys == {"sk-key-123", "sk-key-456"}
Credentials == ValidKeys \cup {"wrong-key", NoHeader}
ConcTenants == {"tenant-1"}                       \* the callers under SpecConc
RunKeys == {"sk-key-123", "wrong-key", NoHeader}  \* the callers of run_agent
HistoryKeys == {"sk-key-123"}                     \* the callers under SpecHistory
Tenants == {"tenant-1", "tenant-2"}
TickSteps == {20, 60}
ToolIds == 1..2
AgentIds == 1..2

ToolInputs == {[name |-> "Search", description |-> "Searching tool"]}
ToolUpdates == {[name |-> None, description |-> None],
                [name |-> "Calc", description |-> "Calculator"]}
ToolFilters == {<<None, None>>, <<"Sea", "Test Agent">>}
AgentInputs == {[name |-> "Test Agent", role |-> "Tester", description |-> "Tests things"]}
\* tool_ids lists
ToolIdLists == {<<>>, <<1>>, <<2>>, <<1, 2>>}
AgentUpdates ==
    {[name |-> None, role |-> None, description |-> None, tool_ids |-> Given(<<>>)],
     [name |-> None, role |-> None, description |-> None, tool_ids |-> Given(<<2>>)],
     [name |-> "Math Bot", role |-> None, description |-> "Does math",
      tool_ids |-> Omitted],
     [name |-> "Math Bot", role |-> None, description |-> "Does math",
      tool_ids |-> Given(<<1, 2>>)]}
AgentFilters == {<<None, None, None>>, <<"Test", "Test", "Search">>}
RunRequests == {[prompt |-> "Calculate 2+2", model |-> "gpt-4o"],
                [prompt |-> "Hello", model |-> "invalid-model-name"]}
Pages == {<<0, 10>>, <<1, 1>>}

(***************************************************************************)
(* Helpers                                                                 *)
(***************************************************************************)
Max(S) == CHOOSE m \in S : \A x \in S : x <= m
Range(f) == {f[i] : i \in DOMAIN f}
\* str.__contains__ / SQL LIKE '%sub%': sub occurs somewhere in a
Contains(a, sub) ==
    \E i \in 1..(Len(a) - Len(sub) + 1) : SubSeq(a, i, i + Len(sub) - 1) = sub
\* Python truthiness of an Optional[str] query parameter
Truthy(v) == v # None /\ v # ""
\* INTEGER PRIMARY KEY of SQLite: one more than the largest id in the table
NextId(rows) == IF rows = {} THEN 1 ELSE Max({r.id : r \in rows}) + 1
\* Agent.tools / Tool.agents, loaded through the association table
ToolsOf(agent_id) == {t \in tools : <<agent_id, t.id>> \in agent_tools}
AgentsOf(tool_id) == {a \in agents : <<a.id, tool_id>> \in agent_tools}

(***************************************************************************)
(* src/auth.py                                                             *)
(***************************************************************************)
\* a variant that answers a missing header like an unknown key
AuthStatusMerged(key) == IF key \notin DOMAIN API_KEYS THEN 401 ELSE 200
\* Header(...) is required: FastAPI answers 422 before the dependency runs;
\* an unknown key raises 401; otherwise the dependency returns the tenant.
AuthStatus(key) ==
    IF key = NoHeader THEN 422
    ELSE IF key \notin DOMAIN API_KEYS THEN 401
    ELSE 200
get_current_tenant(key) == API_KEYS[key]

(***************************************************************************)
(* The request-scoped session (src/database.py).  A handler works on the   *)
(* session's view of the tables; db.commit() writes it, and get_db's       *)
(* finally closes the session, which discards what was not committed.      *)
(***************************************************************************)
Db == [tools |-> tools, agents |-> agents, agent_tools |-> agent_tools,
       executions |-> executions]
Commit(session) ==
    /\ tools' = session.tools
    /\ agents' = session.agents
    /\ agent_tools' = session.agent_tools
    /\ executions' = session.executions
\* a variant whose close flushes the session's pending changes
CloseFlushes(session) == Commit(session)
Close(session) == UNCHANGED store

Response(op, key, id, req, status, body) ==
    [op |-> op, key |-> key, id |-> id, req |-> req, status |-> status,
     body |-> body]
\* the dependency fails: the handler never runs
Refuse(op, key) ==
    /\ resp' = Response(op, key, 0, None, AuthStatus(key),
                        IF AuthStatus(key) = 401 THEN "Invalid API Key"
                        ELSE "Field required")
    /\ UNCHANGED <<store, limiter, now, threads>>
\* raise HTTPException(status, detail) with the session as the handler left it
Raise(op, key, id, req, status, detail, session) ==
    /\ resp' = Response(op, key, id, req, status, detail)
    /\ Close(session)
\* return body, after db.commit()
Return(op, key, id, req, body, session) ==
    /\ resp' = Response(op, key, id, req, 200, body)
    /\ Commit(session)

\* .filter(Model.id == id, Model.tenant_id == tenant_id)
FindTool(tool_id, tenant_id) ==
    {t \in tools : t.id = tool_id /\ t.tenant_id = tenant_id}
\* a variant that looks the agent up by id alone
FindAgentById(agent_id, tenant_id) == {a \in agents : a.id = agent_id}
FindAgent(agent_id, tenant_id) ==
    {a \in agents : a.id = agent_id /\ a.tenant_id = tenant_id}
\* a variant that selects the tools by id alone
QueryToolsById(tool_ids, tenant_id) == {t \in tools : t.id \in Range(tool_ids)}
\* .filter(Tool.id.in_(tool_ids), Tool.tenant_id == tenant_id).all()
QueryTools(tool_ids, tenant_id) ==
    {t \in tools : t.id \in Range(tool_ids) /\ t.tenant_id = tenant_id}
\* a variant that counts each id of the list once
AllFoundDistinct(tl, tool_ids) == Cardinality(tl) = Cardinality(Range(tool_ids))
\* len(tools) == len(tool_ids): the rows found against the entries of the list
AllFound(tl, tool_ids) == Cardinality(tl) = Len(tool_ids)
\* schemas.AgentResponse: the agent's columns and its tools
AgentBody(agent, session) ==
    [agent |-> agent,
     tools |-> {t \in session.tools : <<agent.id, t.id>> \in session.agent_tools}]

(***************************************************************************)
(* Tool endpoints (src/main.py)                                            *)
(***************************************************************************)
create_tool(key, tool) ==
    IF AuthStatus(key) # 200 THEN Refuse("create_tool", key)
    ELSE LET tenant_id == get_current_tenant(key)
             db_tool == [id |-> NextId(tools), tenant_id |-> tenant_id,
                         name |-> tool.name, description |-> tool.description]
         IN /\ Return("create_tool", key, 0, tool, db_tool,
                      [Db EXCEPT !.tools = @ \cup {db_tool}])
            /\ UNCHANGED <<limiter, now, threads>>

read_tools(key, name, agent_name) ==
    IF AuthStatus(key) # 200 THEN Refuse("read_tools", key)
    ELSE LET tenant_id == get_current_tenant(key)
             q0 == {t \in tools : t.tenant_id = tenant_id}
             q1 == IF Truthy(name) THEN {t \in q0 : Contains(t.name, name)} ELSE q0
             q2 == IF Truthy(agent_name)
                   THEN {t \in q1 : \E a \in AgentsOf(t.id) : a.name = agent_name}
                   ELSE q1
         IN /\ resp' = Response("read_tools", key, 0, <<name, agent_name>>, 200, q2)
            /\ Close(Db)
            /\ UNCHANGED <<limiter, now, threads>>

\* the assignments of lines 84-87, made on the session's object
ToolFields(db_tool, tool_update) ==
    LET t1 == IF tool_update.name # None
              THEN [db_tool EXCEPT !.name = tool_update.name] ELSE db_tool
    IN IF tool_update.description # None
       THEN [t1 EXCEPT !.description = tool_update.description] ELSE t1

update_tool(key, tool_id, tool_update) ==
    IF AuthStatus(key) # 200 THEN Refuse("update_tool", key)
    ELSE LET tenant_id == get_current_tenant(key)
             found == FindTool(tool_id, tenant_id)
         IN /\ UNCHANGED <<limiter, now, threads>>
            /\ IF found = {}
               THEN Raise("update_tool", key, tool_id, None, 404,
                          "Tool not found", Db)
               ELSE LET db_tool == CHOOSE t \in found : TRUE
                        t2 == ToolFields(db_tool, tool_update)
                    IN Return("update_tool", key, tool_id, tool_update, t2,
                              [Db EXCEPT !.tools = (@ \ {db_tool}) \cup {t2}])

\* a variant that cascades the deletion to the agents that had the tool
DeleteToolCascade(db_tool, session) ==
    [session EXCEPT !.tools = @ \ {db_tool},
                    !.agent_tools = {p \in @ : p[2] # db_tool.id},
                    !.agents = {a \in @ : <<a.id, db_tool.id>> \notin session.agent_tools}]
\* db.delete(db_tool): the flush deletes the row and, for the relationship
\* Tool.agents (secondary=agent_tools), the tool's association rows
DeleteToolRows(db_tool, session) ==
    [session EXCEPT !.tools = @ \ {db_tool},
                    !.agent_tools = {p \in @ : p[2] # db_tool.id}]

delete_tool(key, tool_id) ==
    IF AuthStatus(key) # 200 THEN Refuse("delete_tool", key)
    ELSE LET tenant_id == get_current_tenant(key)
             found == FindTool(tool_id, tenant_id)
         IN /\ UNCHANGED <<limiter, now, threads>>
            /\ IF found = {}
               THEN Raise("delete_tool", key, tool_id, None, 404, "Tool not found", Db)
               ELSE LET db_tool == CHOOSE t \in found : TRUE
                    IN Return("delete_tool", key, tool_id, None, "Tool deleted",
                              DeleteToolRows(db_tool, Db))

(***************************************************************************)
(* Agent endpoints (src/main.py)                                           *)
(***************************************************************************)
\* a variant that adds the tools of the list to those the agent has
SetToolsMerge(agent_id, tl, session) ==
    [session EXCEPT !.agent_tools = @ \cup {<<agent_id, t.id>> : t \in tl}]
\* tools=tools / db_agent.tools = tools: the agent's association rows become
\* one row per tool of the list
SetTools(agent_id, tl, session) ==
    [session EXCEPT !.agent_tools =
        {p \in @ : p[1] # agent_id} \cup {<<agent_id, t.id>> : t \in tl}]

create_agent(key, agent, tool_ids) ==
    IF AuthStatus(key) # 200 THEN Refuse("create_agent", key)
    ELSE LET tenant_id == get_current_tenant(key)
             req == [agent |-> agent, tool_ids |-> tool_ids]
             tl == IF tool_ids # <<>> THEN QueryTools(tool_ids, tenant_id) ELSE {}
         IN /\ UNCHANGED <<limiter, now, threads>>
            /\ IF tool_ids # <<>> /\ ~AllFound(tl, tool_ids)
               THEN Raise("create_agent", key, 0, req, 400,
                          "One or more tools not found", Db)
               ELSE LET db_agent == [id |-> NextId(agents), tenant_id |-> tenant_id,
                                     name |-> agent.name, role |-> agent.role,
                                     description |-> agent.description]
                        session == SetTools(db_agent.id, tl,
                                            [Db EXCEPT !.agents = @ \cup {db_agent}])
                    IN Return("create_agent", key, 0, req,
                              AgentBody(db_agent, session), session)

read_agents(key, name, role, tool_name) ==
    IF AuthStatus(key) # 200 THEN Refuse("read_agents", key)
    ELSE LET tenant_id == get_current_tenant(key)
             q0 == {a \in agents : a.tenant_id = tenant_id}
             q1 == IF Truthy(name) THEN {a \in q0 : Contains(a.name, name)} ELSE q0
             q2 == IF Truthy(role) THEN {a \in q1 : Contains(a.role, role)} ELSE q1
             q3 == IF Truthy(tool_name)
                   THEN {a \in q2 : \E t \in ToolsOf(a.id) : t.name = tool_name}
                   ELSE q2
         IN /\ resp' = Response("read_agents", key, 0, <<name, role, tool_name>>, 200,
                                {AgentBody(a, Db) : a \in q3})
            /\ Close(Db)
            /\ UNCHANGED <<limiter, now, threads>>

read_single_agent(key, agent_id) ==
    IF AuthStatus(key) # 200 THEN Refuse("read_single_agent", key)
    ELSE LET tenant_id == get_current_tenant(key)
             found == FindAgent(agent_id, tenant_id)
         IN /\ UNCHANGED <<limiter, now, threads>>
            /\ IF found = {}
               THEN Raise("read_single_agent", key, agent_id, None, 404,
                          "Agent not found", Db)
               ELSE /\ resp' = Response("read_single_agent", key, agent_id, None, 200,
                                        AgentBody(CHOOSE a \in found : TRUE, Db))
                    /\ Close(Db)

\* the assignments of lines 228-233, made on the session's object
AgentFields(db_agent, agent_update) ==
    LET a1 == IF agent_update.name # None
              THEN [db_agent EXCEPT !.name = agent_update.name] ELSE db_agent
        a2 == IF agent_update.role # None
              THEN [a1 EXCEPT !.role = agent_update.role] ELSE a1
    IN IF agent_update.description # None
       THEN [a2 EXCEPT !.description = agent_update.description] ELSE a2

update_agent(key, agent_id, agent_update) ==
    IF AuthStatus(key) # 200 THEN Refuse("update_agent", key)
    ELSE LET tenant_id == get_current_tenant(key)
             found == FindAgent(agent_id, tenant_id)
         IN /\ UNCHANGED <<limiter, now, threads>>
            /\ IF found = {}
               THEN Raise("update_agent", key, agent_id, None, 404,
                          "Agent not found", Db)
               ELSE LET db_agent == CHOOSE a \in found : TRUE
                        a3 == AgentFields(db_agent, agent_update)
                        dirty == [Db EXCEPT !.agents = (@ \ {db_agent}) \cup {a3}]
                        tl == QueryTools(agent_update.tool_ids[1], tenant_id)
                    IN IF agent_update.tool_ids = Omitted
                       THEN Return("update_agent", key, agent_id, agent_update,
                                   AgentBody(a3, dirty), dirty)
                       ELSE IF ~AllFound(tl, agent_update.tool_ids[1])
                       THEN Raise("update_agent", key, agent_id, agent_update, 400,
                                  "One or more tools not found", dirty)
                       ELSE LET session == SetTools(agent_id, tl, dirty)
                            IN Return("update_agent", key, agent_id, agent_update,
                                      AgentBody(a3, session), session)

\* a variant that also deletes the agent's execution records
DeleteAgentCascade(db_agent, session) ==
    [session EXCEPT !.agents = @ \ {db_agent},
                    !.agent_tools = {p \in @ : p[1] # db_agent.id},
                    !.executions = SelectSeq(@, LAMBDA e : e.agent_id # db_agent.id)]
\* db.delete(db_agent): the flush deletes the row and, for the relationship
\* Agent.tools (secondary=agent_tools), the agent's association rows
DeleteAgentRows(db_agent, session) ==
    [session EXCEPT !.agents = @ \ {db_agent},
                    !.agent_tools = {p \in @ : p[1] # db_agent.id}]

delete_agent(key, agent_id) ==
    IF AuthStatus(key) # 200 THEN Refuse("delete_agent", key)
    ELSE LET tenant_id == get_current_tenant(key)
             found == FindAgent(agent_id, tenant_id)
         IN /\ UNCHANGED <<limiter, now, threads>>
            /\ IF found = {}
               THEN Raise("delete_agent", key, agent_id, None, 404, "Agent not found", Db)
               ELSE LET db_agent == CHOOSE a \in found : TRUE
                    IN Return("delete_agent", key, agent_id, None, "Agent deleted",
                              DeleteAgentRows(db_agent, Db))

(***************************************************************************)
(* Rate limiter and response simulator (src/utils.py)                      *)
(***************************************************************************)
\* request_timestamps.get(tenant_id, [])
Get(tenant_id) ==
    IF tenant_id \in DOMAIN request_timestamps
    THEN request_timestamps[tenant_id] ELSE <<>>
\* a variant that keeps a timestamp that is exactly TIME_WINDOW old
PruneInclusive(timestamps, t0) ==
    SelectSeq(timestamps, LAMBDA t : t0 - t <= TIME_WINDOW)
\* [t for t in timestamps if now - t < TIME_WINDOW]
Prune(timestamps, t0) == SelectSeq(timestamps, LAMBDA t : t0 - t < TIME_WINDOW)
\* a variant that admits one request too many
OverLimitOffByOne(timestamps) == Len(timestamps) > RATE_LIMIT
\* len(timestamps) >= RATE_LIMIT
OverLimit(timestamps) == Len(timestamps) >= RATE_LIMIT
\* a variant that keeps one list for all the tenants
SaveShared(tenant_id, timestamps, t0) ==
    /\ request_timestamps' = [k \in Tenants |-> Append(timestamps, t0)]
    /\ admitted' = [admitted EXCEPT ![tenant_id] = Append(@, t0)]
\* a variant that puts the new timestamp in front of the list
SaveInFront(tenant_id, timestamps, t0) ==
    /\ request_timestamps' =
           [k \in DOMAIN request_timestamps \cup {tenant_id} |->
               IF k = tenant_id THEN <<t0>> \o timestamps
               ELSE request_timestamps[k]]
    /\ admitted' = [admitted EXCEPT ![tenant_id] = Append(@, t0)]
\* timestamps.append(now); request_timestamps[tenant_id] = timestamps
Save(tenant_id, timestamps, t0) ==
    /\ request_timestamps' =
           [k \in DOMAIN request_timestamps \cup {tenant_id} |->
               IF k = tenant_id THEN Append(timestamps, t0)
               ELSE request_timestamps[k]]
    /\ admitted' = [admitted EXCEPT ![tenant_id] = Append(@, t0)]
\* the whole of check_rate_limit, run without interruption: TRUE when the
\* call raises 429
RateLimited(tenant_id) == OverLimit(Prune(Get(tenant_id), now))
\* a variant that lets the call pass without recording it
AdmitUnrecorded(tenant_id) == UNCHANGED <<request_timestamps, admitted>>
Admit(tenant_id) == Save(tenant_id, Prune(Get(tenant_id), now), now)
\* a variant that records the time of a refused call
RejectRecorded(tenant_id) ==
    request_timestamps' =
        [k \in DOMAIN request_timestamps \cup {tenant_id} |->
            IF k = tenant_id THEN Append(Get(tenant_id), now)
            ELSE request_timestamps[k]]
    /\ admitted' = admitted
\* raise at line 22: the filtered list is dropped, nothing is stored
Reject(tenant_id) == UNCHANGED <<request_timestamps, admitted>>

\* a variant that only refuses a missing model name
ModelGiven(model) == model # None
\* execution_request.model in SUPPORTED_MODELS
ModelSupported(model) == model \in SUPPORTED_MODELS

\* a variant that picks the sentence after the one the length selects
mock_llm_call_next(prompt, model) ==
    "[" \o model \o " Response]: "
        \o responses[((Len(prompt) + 1) % Len(responses)) + 1]
\* time.sleep takes time and changes nothing; the value returned is the
\* model's tag followed by the sentence at index len(prompt) % len(responses)
mock_llm_call(prompt, model) ==
    "[" \o model \o " Response]: " \o responses[(Len(prompt) % Len(responses)) + 1]

(***************************************************************************)
(* Run and history endpoints (src/main.py)                                 *)
(***************************************************************************)
RECURSIVE Join(_, _)
\* ", ".join(names)
Join(names, sep) ==
    IF names = <<>> THEN ""
    ELSE IF Len(names) = 1 THEN names[1]
    ELSE names[1] \o sep \o Join(Tail(names), sep)
RECURSIVE SortedNames(_)
\* [t.name for t in agent.tools], the tools in the order of their ids
SortedNames(tl) ==
    IF tl = {} THEN <<>>
    ELSE LET first == CHOOSE t \in tl : \A u \in tl : t.id <= u.id
         IN <<first.name>> \o SortedNames(tl \ {first})
FinalPrompt(agent, tl, prompt) ==
    "System: You are " \o agent.name \o ", a " \o agent.role \o ". "
    \o agent.description \o ". You have access to these tools: ["
    \o Join(SortedNames(tl), ", ") \o "].\nUser Task: " \o prompt

\* a variant that looks the agent up before the other checks
RunStatusLookupFirst(supported, limited, found) ==
    IF ~found THEN 404
    ELSE IF ~supported THEN 400
    ELSE IF limited THEN 429
    ELSE 200
\* the status run_agent ends with: the checks in the order of lines 305-315
RunStatus(supported, limited, found) ==
    IF ~supported THEN 400
    ELSE IF limited THEN 429
    ELSE IF ~found THEN 404
    ELSE 200

\* a variant that writes the record before the response is there
AddExecutionEarly(tenant_id, agent, final_prompt, model, response_text, session) ==
    [session EXCEPT !.executions = Append(@,
        [id |-> Len(@) + 1, tenant_id |-> tenant_id, agent_id |-> agent.id,
         prompt |-> final_prompt, model |-> model, response |-> "",
         timestamp |-> now])]
\* models.AgentExecution(...), db.add(execution)
AddExecution(tenant_id, agent, final_prompt, model, response_text, session) ==
    [session EXCEPT !.executions = Append(@,
        [id |-> Len(@) + 1, tenant_id |-> tenant_id, agent_id |-> agent.id,
         prompt |-> final_prompt, model |-> model, response |-> response_text,
         timestamp |-> now])]

run_agent(key, agent_id, execution_request) ==
    IF AuthStatus(key) # 200 THEN Refuse("run_agent", key)
    ELSE LET tenant_id == get_current_tenant(key)
             found == FindAgent(agent_id, tenant_id)
             status == RunStatus(ModelSupported(execution_request.model),
                                 RateLimited(tenant_id), found # {})
         IN /\ UNCHANGED <<now, threads>>
            /\ IF status = 400
               THEN /\ Raise("run_agent", key, agent_id, execution_request, 400,
                             "Model is not supported", Db)
                    /\ UNCHANGED limiter
               ELSE /\ last_request' = [last_request EXCEPT ![tenant_id] = now]
                    /\ IF status = 429
                       THEN /\ Raise("run_agent", key, agent_id, execution_request, 429,
                                     "Rate limit exceeded. Try again later.", Db)
                            /\ Reject(tenant_id)
                       ELSE /\ Admit(tenant_id)
                            /\ IF status = 404
                               THEN Raise("run_agent", key, agent_id, execution_request,
                                          404, "Agent not found", Db)
                               ELSE LET agent == CHOOSE a \in found : TRUE
                                        final_prompt ==
                                            FinalPrompt(agent, ToolsOf(agent.id),
                                                        execution_request.prompt)
                                        response_text ==
                                            mock_llm_call(final_prompt,
                                                          execution_request.model)
                                    IN Return("run_agent", key, agent_id, execution_request,
                                              [agent |-> agent.name,
                                               final_prompt |-> final_prompt,
                                               response |-> response_text],
                                              AddExecution(tenant_id, agent, final_prompt,
                                                           execution_request.model,
                                                           response_text, Db))

read_history(key, skip, limit) ==
    IF AuthStatus(key) # 200 THEN Refuse("read_history", key)
    ELSE LET tenant_id == get_current_tenant(key)
             rows == SelectSeq(executions, LAMBDA e : e.tenant_id = tenant_id)
         IN /\ resp' = Response("read_history", key, 0, <<skip, limit>>, 200,
                                SubSeq(rows, skip + 1,
                                       IF skip + limit < Len(rows) THEN skip + limit
                                       ELSE Len(rows)))
            /\ Close(Db)
            /\ UNCHANGED <<limiter, now, threads>>

(***************************************************************************)
(* The requests served one at a time                                       *)
(***************************************************************************)
AllTenants == {API_KEYS[k] : k \in DOMAIN API_KEYS}
\* the run a worker thread is serving: what run_agent holds in its locals
NoCall == [key |-> None, agent_id |-> 0, prompt |-> None, model |-> None,
           agent_name |-> None, final_prompt |-> None]
Idle == [pc |-> "idle", tenant_id |-> None, now |-> 0, timestamps |-> <<>>,
         locks |-> {}, call |-> NoCall]
Threads == {1, 2}

Init ==
    /\ tools = {}
    /\ agents = {}
    /\ agent_tools = {}
    /\ executions = <<>>
    /\ request_timestamps = <<>>
    /\ now = 0
    /\ admitted = [t \in AllTenants |-> <<>>]
    /\ last_request = [t \in AllTenants |-> -1]
    /\ resp = Response("start", None, 0, None, 0, None)
    /\ threads = [th \in Threads |-> Idle]

Tick ==
    /\ \E d \in TickSteps : now + d <= MaxTime /\ now' = now + d
    /\ UNCHANGED <<store, limiter, resp, threads>>

CreateTool(keys, max) ==
    /\ Cardinality(tools) < max
    /\ \E key \in keys, tool \in ToolInputs : create_tool(key, tool)
ReadTools(keys) ==
    \E key \in keys, f \in ToolFilters : read_tools(key, f[1], f[2])
UpdateTool(keys) ==
    \E key \in keys, id \in ToolIds, u \in ToolUpdates : update_tool(key, id, u)
DeleteTool(keys) ==
    \E key \in keys, id \in ToolIds : delete_tool(key, id)
CreateAgent(keys, max) ==
    /\ Cardinality(agents) < max
    /\ \E key \in keys, a \in AgentInputs, ids \in ToolIdLists :
           create_agent(key, a, ids)
ReadAgents(keys) ==
    \E key \in keys, f \in AgentFilters : read_agents(key, f[1], f[2], f[3])
ReadSingleAgent(keys) ==
    \E key \in keys, id \in AgentIds : read_single_agent(key, id)
UpdateAgent(keys) ==
    \E key \in keys, id \in AgentIds, u \in AgentUpdates : update_agent(key, id, u)
DeleteAgent(keys) ==
    \E key \in keys, id \in AgentIds : delete_agent(key, id)
RunAgent(keys, max) ==
    \E key \in keys, id \in AgentIds, r \in RunRequests :
        /\ run_agent(key, id, r)
        /\ Len(executions') <= max
ReadHistory(keys) ==
    \E key \in keys, pg \in Pages : read_history(key, pg[1], pg[2])

Next ==
    \/ CreateTool(Credentials, MaxTools)
    \/ ReadTools(Credentials)
    \/ UpdateTool(Credentials)
    \/ DeleteTool(Credentials)
    \/ CreateAgent(Credentials, MaxAgents)
    \/ ReadAgents(Credentials)
    \/ ReadSingleAgent(Credentials)
    \/ UpdateAgent(Credentials)
    \/ DeleteAgent(Credentials)
    \/ RunAgent(RunKeys, MaxExecutions)
    \/ ReadHistory(Credentials)

Spec == Init /\ [][Next]_vars

(***************************************************************************)
(* The registry alone.  agents.db outlives the process: the history table  *)
(* starts with a record left by an agent that has since been deleted.      *)
(***************************************************************************)
EarlierAgent == [id |-> 1, tenant_id |-> "tenant-1", name |-> "Test Agent",
                 role |-> "Tester", description |-> "Tests things"]
EarlierRun ==
    LET final_prompt == FinalPrompt(EarlierAgent, {}, "Calculate 2+2")
    IN [id |-> 1, tenant_id |-> "tenant-1", agent_id |-> 1,
        prompt |-> final_prompt, model |-> "gpt-4o",
        response |-> mock_llm_call(final_prompt, "gpt-4o"), timestamp |-> 0]

StoreInit ==
    /\ tools = {}
    /\ agents = {}
    /\ agent_tools = {}
    /\ executions = <<EarlierRun>>
    /\ request_timestamps = <<>>
    /\ now = 0
    /\ admitted = [t \in AllTenants |-> <<>>]
    /\ last_request = [t \in AllTenants |-> -1]
    /\ resp = Response("start", None, 0, None, 0, None)
    /\ threads = [th \in Threads |-> Idle]

StoreNext ==
    \/ CreateTool(ValidKeys, StoreMaxTools)
    \/ ReadTools(ValidKeys)
    \/ UpdateTool(ValidKeys)
    \/ DeleteTool(ValidKeys)
    \/ CreateAgent(ValidKeys, StoreMaxAgents)
    \/ ReadAgents(ValidKeys)
    \/ ReadSingleAgent(ValidKeys)
    \/ UpdateAgent(ValidKeys)
    \/ DeleteAgent(ValidKeys)
    \/ ReadHistory(ValidKeys)

SpecStore == StoreInit /\ [][StoreNext]_vars

(***************************************************************************)
(* The rate limiter alone, its calls made one at a time                    *)
(***************************************************************************)
check_rate_limit(tenant_id) ==
    /\ last_request' = [last_request EXCEPT ![tenant_id] = now]
    /\ IF RateLimited(tenant_id)
       THEN /\ resp' = Response("check_rate_limit", None, 0, tenant_id, 429,
                                "Rate limit exceeded. Try again later.")
            /\ Reject(tenant_id)
       ELSE /\ Admit(tenant_id)
            /\ resp' = Response("check_rate_limit", None, 0, tenant_id, 200, None)
    /\ UNCHANGED <<store, now, threads>>

CheckRateLimit == \E tenant_id \in Tenants : check_rate_limit(tenant_id)

LimiterNext == Tick \/ CheckRateLimit

SpecLimiter == Init /\ [][LimiterNext]_vars

(***************************************************************************)
(* The rate limiter called from several worker threads.  FastAPI runs a    *)
(* def handler in a thread pool; check_rate_limit takes no lock, so the    *)
(* threads interleave between its statements.                              *)
(***************************************************************************)
\* line 14: now = time.time(), in a call made for one of the callers
Call(th, callers, max) ==
    /\ threads[th].pc = "idle"
    /\ \E tenant_id \in callers :
          /\ Len(admitted[tenant_id]) < max
          /\ threads' = [threads EXCEPT ![th] =
                 [Idle EXCEPT !.pc = "get", !.tenant_id = tenant_id, !.now = now]]
    /\ UNCHANGED <<store, limiter, now, resp>>
Enter(th) == Call(th, ConcTenants, MaxCalls)
\* lines 16-19: read the tenant's list and filter it into a new list
GetAndPrune(th) ==
    /\ threads[th].pc = "get"
    /\ threads' = [threads EXCEPT
           ![th].timestamps = Prune(Get(threads[th].tenant_id), threads[th].now),
           ![th].pc = "compare"]
    /\ UNCHANGED <<store, limiter, now, resp>>
\* lines 21-22: raise 429 or go on
Compare(th) ==
    /\ threads[th].pc = "compare"
    /\ last_request' = [last_request EXCEPT ![threads[th].tenant_id] = threads[th].now]
    /\ IF OverLimit(threads[th].timestamps)
       THEN /\ threads' = [threads EXCEPT ![th] = Idle]
            /\ resp' = Response("check_rate_limit", None, th, threads[th].tenant_id,
                                429, "Rate limit exceeded. Try again later.")
       ELSE /\ threads' = [threads EXCEPT ![th].pc = "save"]
            /\ UNCHANGED resp
    /\ UNCHANGED <<store, request_timestamps, admitted, now>>
\* lines 25-26: append now and store the list
AppendAndSave(th) ==
    /\ threads[th].pc = "save"
    /\ Save(threads[th].tenant_id, threads[th].timestamps, threads[th].now)
    /\ threads' = [threads EXCEPT ![th] = Idle]
    /\ resp' = Response("check_rate_limit", None, th, threads[th].tenant_id, 200, None)
    /\ UNCHANGED <<store, last_request, now>>

ConcNext ==
    \/ Tick
    \/ \E th \in Threads : Enter(th)
    \/ \E th \in Threads : GetAndPrune(th)
    \/ \E th \in Threads : Compare(th)
    \/ \E th \in Threads : AppendAndSave(th)

SpecConc == Init /\ [][ConcNext]_vars

(***************************************************************************)
(* run_agent served by several worker threads.  A run that reaches line    *)
(* 324 stays in mock_llm_call's time.sleep for half a second; the other    *)
(* threads go on.  SQLite lets one connection write at a time: a session   *)
(* that had flushed a write would keep the others from writing until it    *)
(* commits.                                                                *)
(***************************************************************************)
\* a variant whose session has flushed a write when it reaches the delay
LocksHeldByOpenWrite(pc) == IF pc = "delay" THEN {"store"} ELSE {}
\* the locks a run holds at a position: check_rate_limit takes none, and the
\* session has only read (lines 313 and 317) when mock_llm_call is called
LocksHeld(pc) == {}
\* no other thread's session keeps the database's write lock
StoreFree(th) == \A o \in Threads \ {th} : "store" \notin threads[o].locks

\* lines 305-322, and the call of line 324 up to its time.sleep
RunUntilDelay(th) ==
    /\ threads[th].pc = "idle"
    /\ \E key \in ValidKeys, agent_id \in AgentIds, r \in RunRequests :
          LET tenant_id == get_current_tenant(key)
              found == FindAgent(agent_id, tenant_id)
              status == RunStatus(ModelSupported(r.model), RateLimited(tenant_id),
                                  found # {})
          IN IF status # 200
             THEN run_agent(key, agent_id, r)
             ELSE LET agent == CHOOSE a \in found : TRUE
                  IN /\ last_request' = [last_request EXCEPT ![tenant_id] = now]
                     /\ Admit(tenant_id)
                     /\ threads' = [threads EXCEPT ![th] =
                            [Idle EXCEPT
                               !.pc = "delay", !.tenant_id = tenant_id, !.now = now,
                               !.locks = LocksHeld("delay"),
                               !.call = [key |-> key, agent_id |-> agent.id,
                                         prompt |-> r.prompt, model |-> r.model,
                                         agent_name |-> agent.name,
                                         final_prompt |->
                                            FinalPrompt(agent, ToolsOf(agent.id),
                                                        r.prompt)]]]
                     /\ UNCHANGED <<store, now, resp>>
\* line 324 after the sleep, and lines 326-333
RunAfterDelay(th) ==
    /\ threads[th].pc = "delay"
    /\ StoreFree(th)
    /\ LET c == threads[th].call
           response_text == mock_llm_call(c.final_prompt, c.model)
       IN Return("run_agent", c.key, c.agent_id,
                 [prompt |-> c.prompt, model |-> c.model],
                 [agent |-> c.agent_name, final_prompt |-> c.final_prompt,
                  response |-> response_text],
                 AddExecution(threads[th].tenant_id, [id |-> c.agent_id],
                              c.final_prompt, c.model, response_text, Db))
    /\ threads' = [threads EXCEPT ![th] = Idle]
    /\ UNCHANGED <<limiter, now>>
\* a request that writes to the store, served by a thread outside Threads
WriteAgent(keys, max) ==
    /\ \A o \in Threads : "store" \notin threads[o].locks
    /\ (CreateAgent(keys, max) \/ UpdateAgent(keys))

DelayNext ==
    \/ \E th \in Threads :
          /\ \A t \in Tenants : Len(admitted[t]) < DelayMaxRuns
          /\ RunUntilDelay(th)
    \/ \E th \in Threads : RunAfterDelay(th)
    \/ WriteAgent(ValidKeys, DelayMaxAgents)

SpecDelay == Init /\ [][DelayNext]_vars

(***************************************************************************)
(* Agents created and updated with tool_ids lists of every kind: empty,    *)
(* distinct ids, a repeated id, ids of the other tenant, unknown ids       *)
(***************************************************************************)
RepeatingLists == {<<>>, <<1>>, <<1, 1>>, <<1, 2>>, <<2, 1, 2>>, <<3>>}
ListUpdates ==
    {[name |-> None, role |-> None, description |-> None, tool_ids |-> Given(l)] :
        l \in RepeatingLists}

CreateAgentWithList ==
    /\ Cardinality(agents) < StoreMaxAgents
    /\ \E key \in ValidKeys, a \in AgentInputs, ids \in RepeatingLists :
          create_agent(key, a, ids)
UpdateAgentWithList ==
    \E key \in ValidKeys, id \in AgentIds, u \in ListUpdates : update_agent(key, id, u)

ToolIdsNext ==
    \/ CreateTool(ValidKeys, StoreMaxTools)
    \/ DeleteTool(ValidKeys)
    \/ CreateAgentWithList
    \/ UpdateAgentWithList

SpecToolIds == Init /\ [][ToolIdsNext]_vars

(***************************************************************************)
(* The response simulator alone, called with prompts of every content      *)
(***************************************************************************)
RECURSIVE Prompts(_)
\* the prompts of n characters over a two-letter alphabet
Prompts(n) ==
    IF n = 0 THEN {""} ELSE {p \o c : p \in Prompts(n - 1), c \in {"a", "b"}}
SimulatorModels == {"gpt-4o", "gemini-3"}

MockLlmCall ==
    /\ \E n \in 0..MaxPromptLen : \E prompt \in Prompts(n), model \in SimulatorModels :
          resp' = Response("mock_llm_call", None, 0,
                           [prompt |-> prompt, model |-> model], 200,
                           mock_llm_call(prompt, model))
    /\ UNCHANGED <<store, limiter, now, threads>>

SimulatorNext == MockLlmCall

SpecSimulator == Init /\ [][SimulatorNext]_vars

(***************************************************************************)
(* The worker threads serving two tenants at one time of the clock         *)
(***************************************************************************)
EnterAny(th) == Call(th, Tenants, PartitionMaxCalls)

PartitionNext ==
    \/ \E th \in Threads : EnterAny(th)
    \/ \E th \in Threads : GetAndPrune(th)
    \/ \E th \in Threads : Compare(th)
    \/ \E th \in Threads : AppendAndSave(th)

SpecPartition == Init /\ [][PartitionNext]_vars

(***************************************************************************)
(* The registry and the run pipeline of one tenant, with room for a second *)
(* run after the agent of the first was updated, deleted or re-created.    *)
(***************************************************************************)
HistoryNext ==
    \/ CreateTool(HistoryKeys, MaxTools)
    \/ UpdateTool(HistoryKeys)
    \/ DeleteTool(HistoryKeys)
    \/ CreateAgent(HistoryKeys, MaxAgents)
    \/ UpdateAgent(HistoryKeys)
    \/ DeleteAgent(HistoryKeys)
    \/ RunAgent(HistoryKeys, HistoryMaxRuns)
    \/ ReadHistory(HistoryKeys)

SpecHistory == Init /\ [][HistoryNext]_vars

(***************************************************************************)
(* Properties of the rate limiter                                          *)
(***************************************************************************)
\* the admitted calls of the tenant in the TIME_WINDOW seconds that end with
\* its i-th admitted call
InWindowOf(tenant_id, i) ==
    {j \in 1..Len(admitted[tenant_id]) :
        /\ admitted[tenant_id][j] <= admitted[tenant_id][i]
        /\ admitted[tenant_id][i] - admitted[tenant_id][j] < TIME_WINDOW}
\* the admitted calls of the tenant that are less than TIME_WINDOW old
Recent(tenant_id) ==
    {i \in 1..Len(admitted[tenant_id]) : now - admitted[tenant_id][i] < TIME_WINDOW}
Saturated(tenant_id) == Cardinality(Recent(tenant_id)) >= RATE_LIMIT
\* the step is a call of check_rate_limit for the tenant
Called(tenant_id) ==
    now' = now /\ resp'.op = "check_rate_limit" /\ resp'.req = tenant_id

\* C1: with the calls made one at a time, no tenant has more than RATE_LIMIT
\* admitted calls in any TIME_WINDOW seconds, and a call made while
\* RATE_LIMIT admitted calls are less than TIME_WINDOW old is refused (429).
C1_WindowCapacity ==
    /\ [](\A tenant_id \in Tenants : \A i \in 1..Len(admitted[tenant_id]) :
            Cardinality(InWindowOf(tenant_id, i)) <= RATE_LIMIT)
    /\ [][\A tenant_id \in Tenants :
            (Called(tenant_id) /\ Saturated(tenant_id)) =>
                resp'.status = 429 /\ admitted' = admitted]_vars
\* a call was refused while five calls admitted at different times are recent
C1_Witness ==
    /\ resp.op = "check_rate_limit" /\ resp.status = 429
    /\ Saturated(resp.req)
    /\ admitted[resp.req][1] < admitted[resp.req][Len(admitted[resp.req])]
    /\ now > admitted[resp.req][Len(admitted[resp.req])]

\* C9: the first call made at least TIME_WINDOW seconds after the tenant's
\* last call is admitted, also when the tenant was saturated.
C9_AdmittedAfterWindow ==
    [][\A tenant_id \in Tenants :
        (/\ Called(tenant_id)
         /\ last_request[tenant_id] >= 0
         /\ now - last_request[tenant_id] >= TIME_WINDOW) =>
            /\ resp'.status = 200
            /\ admitted'[tenant_id] = Append(admitted[tenant_id], now)]_vars
\* a tenant with five calls admitted at one time was refused at that time and
\* admitted TIME_WINDOW seconds later
C9_Witness ==
    /\ resp.op = "check_rate_limit" /\ resp.status = 200
    /\ LET a == admitted[resp.req]
       IN /\ Len(a) = RATE_LIMIT + 1
          /\ a[1] = a[RATE_LIMIT]
          /\ a[RATE_LIMIT + 1] = a[RATE_LIMIT] + TIME_WINDOW
          /\ now = a[RATE_LIMIT + 1]

\* C2: in no interleaving of concurrent check_rate_limit calls are more than
\* RATE_LIMIT requests of one tenant admitted within one TIME_WINDOW.
C2_NoOverAdmission ==
    \A tenant_id \in Tenants : \A i \in 1..Len(admitted[tenant_id]) :
        Cardinality(InWindowOf(tenant_id, i)) <= RATE_LIMIT

(***************************************************************************)
(* Properties of the run pipeline                                          *)
(***************************************************************************)
\* the handler of the request answered by r ran (its dependencies resolved)
Ran(r) == r.op # "start" /\ r.status \notin {401, 422}
Owns(tenant_id, agent_id) ==
    \E a \in agents : a.id = agent_id /\ a.tenant_id = tenant_id

\* C3: run_agent checks the model, then the rate limiter, then the agent: an
\* unsupported model always gives 400 and a supported model of a saturated
\* tenant always gives 429, whether or not the agent exists; 404 is given
\* only after the model was accepted and the limiter admitted the request.
C3_CheckOrder ==
    [][(resp'.op = "run_agent" /\ Ran(resp')) =>
        LET tenant_id == API_KEYS[resp'.key]
            supported == resp'.req.model \in {"gpt-4o", "gemini-3"}
        IN /\ ~supported => resp'.status = 400
           /\ supported /\ Saturated(tenant_id) => resp'.status = 429
           /\ resp'.status = 404 =>
                 /\ supported
                 /\ ~Saturated(tenant_id)
                 /\ admitted'[tenant_id] = Append(admitted[tenant_id], now)]_vars
\* a saturated tenant ran an agent that does not exist with an unsupported
\* model and got 400
C3_Witness ==
    /\ resp.op = "run_agent" /\ resp.status = 400
    /\ Saturated(API_KEYS[resp.key])
    /\ ~Owns(API_KEYS[resp.key], resp.id)

\* C4: a run whose model is not in the allow-list never consults the rate
\* limiter and never creates an Execution record: the limiter's map, its
\* history and the executions are what they were before.
C4_UnsupportedModelTouchesNothing ==
    [][(resp'.op = "run_agent" /\ Ran(resp')
        /\ resp'.req.model \notin {"gpt-4o", "gemini-3"}) =>
            UNCHANGED <<request_timestamps, admitted, last_request, executions>>]_vars
\* an unsupported-model run of an existing agent by a tenant with admissions left
C4_Witness ==
    /\ resp.op = "run_agent" /\ Ran(resp)
    /\ resp.req.model \notin {"gpt-4o", "gemini-3"}
    /\ Owns(API_KEYS[resp.key], resp.id)
    /\ Len(Get(API_KEYS[resp.key])) \in 1..(RATE_LIMIT - 1)

\* C8: a run that exits at the model check, the rate limiter or the agent
\* lookup adds no Execution record; a run that succeeds adds exactly one,
\* with the caller's tenant, the agent's id, the composed prompt, the
\* requested model and the response returned to the caller.
C8_OneRecordPerSuccess ==
    [][(resp'.op = "run_agent" /\ Ran(resp')) =>
        IF resp'.status # 200 THEN executions' = executions
        ELSE /\ Len(executions') = Len(executions) + 1
             /\ SubSeq(executions', 1, Len(executions)) = executions
             /\ LET e == executions'[Len(executions')]
                    agent == CHOOSE a \in agents : a.id = resp'.id
                IN /\ e.tenant_id = API_KEYS[resp'.key]
                   /\ e.agent_id = resp'.id
                   /\ e.prompt = resp'.body.final_prompt
                   /\ e.prompt = "System: You are " \o agent.name \o ", a "
                         \o agent.role \o ". " \o agent.description
                         \o ". You have access to these tools: ["
                         \o Join(SortedNames(ToolsOf(agent.id)), ", ")
                         \o "].\nUser Task: " \o resp'.req.prompt
                   /\ e.model = resp'.req.model
                   /\ e.response = resp'.body.response
                   /\ Len(e.response) > Len("[" \o e.model \o " Response]: ")]_vars
\* a successful run of an agent that has a tool
C8_Witness ==
    /\ resp.op = "run_agent" /\ resp.status = 200
    /\ Len(executions) = 1
    /\ ToolsOf(resp.id) # {}

(***************************************************************************)
(* Properties of the registry                                              *)
(***************************************************************************)
OtherRows(rows, tenant_id) == {r \in rows : r.tenant_id # tenant_id}
OtherLinks(links, ags, tenant_id) ==
    {p \in links : \E a \in ags : a.id = p[1] /\ a.tenant_id # tenant_id}
OtherRuns(runs, tenant_id) == SelectSeq(runs, LAMBDA e : e.tenant_id # tenant_id)
\* nothing of another tenant is changed or deleted by the step
OthersUntouched(tenant_id) ==
    /\ OtherRows(tools', tenant_id) = OtherRows(tools, tenant_id)
    /\ OtherRows(agents', tenant_id) = OtherRows(agents, tenant_id)
    /\ OtherLinks(agent_tools', agents', tenant_id)
           = OtherLinks(agent_tools, agents, tenant_id)
    /\ OtherRuns(executions', tenant_id) = OtherRuns(executions, tenant_id)
OwnAgentBody(b, tenant_id) ==
    b.agent.tenant_id = tenant_id /\ \A t \in b.tools : t.tenant_id = tenant_id
\* everything the response r returns is a row of the tenant
ReturnsOnlyOwn(r, tenant_id) ==
    r.status = 200 =>
        CASE r.op \in {"create_tool", "update_tool"} -> r.body.tenant_id = tenant_id
          [] r.op = "read_tools" -> \A t \in r.body : t.tenant_id = tenant_id
          [] r.op \in {"create_agent", "read_single_agent", "update_agent"} ->
                 OwnAgentBody(r.body, tenant_id)
          [] r.op = "read_agents" -> \A b \in r.body : OwnAgentBody(b, tenant_id)
          [] r.op = "read_history" ->
                 \A i \in 1..Len(r.body) : r.body[i].tenant_id = tenant_id
          [] r.op = "run_agent" ->
                 \E a \in agents : /\ a.id = r.id /\ a.tenant_id = tenant_id
                                   /\ a.name = r.body.agent
          [] OTHER -> TRUE
\* the request answered by r named, by id, a tool or agent of another tenant
NamesForeign(r, tenant_id) ==
    \/ /\ r.op \in {"update_tool", "delete_tool"}
       /\ \E t \in tools : t.id = r.id /\ t.tenant_id # tenant_id
    \/ /\ r.op \in {"read_single_agent", "update_agent", "delete_agent", "run_agent"}
       /\ \E a \in agents : a.id = r.id /\ a.tenant_id # tenant_id

\* C5 as stated: a request of tenant A never returns, changes or deletes a
\* row of another tenant, and every get/update/delete/run by id that names a
\* row of another tenant returns 404.
C5_IsolationAlways404 ==
    [][Ran(resp') =>
        LET tenant_id == API_KEYS[resp'.key]
        IN /\ OthersUntouched(tenant_id)
           /\ ReturnsOnlyOwn(resp', tenant_id)
           /\ NamesForeign(resp', tenant_id) => resp'.status = 404]_vars
\* C5 as amended: the same, except that a run naming another tenant's agent
\* may already be refused by the model check (400) or the rate limiter (429),
\* which come before the lookup; it never succeeds and never returns 401.
C5_Isolation ==
    [][Ran(resp') =>
        LET tenant_id == API_KEYS[resp'.key]
        IN /\ OthersUntouched(tenant_id)
           /\ ReturnsOnlyOwn(resp', tenant_id)
           /\ NamesForeign(resp', tenant_id) =>
                 \/ resp'.status = 404
                 \/ resp'.op = "run_agent" /\ resp'.status \in {400, 429}]_vars
\* an update by id of another tenant's agent was answered 404
C5_Witness ==
    /\ resp.op = "update_agent" /\ resp.status = 404
    /\ \E a \in agents : a.id = resp.id /\ a.tenant_id # API_KEYS[resp.key]

\* C7: no operation that ends in a failure changes a stored Tool, Agent,
\* association or Execution row; in particular an update_agent refused with
\* "One or more tools not found" leaves the agent as it was.
C7_NoPartialMutation ==
    [][resp'.status \in {400, 401, 404, 422, 429} => UNCHANGED store]_vars
\* an update_agent that carried a new name was refused for its tool_ids
C7_Witness ==
    /\ resp.op = "update_agent" /\ resp.status = 400
    /\ resp.body = "One or more tools not found"
    /\ resp.req.name # None
    /\ \E a \in agents : /\ a.id = resp.id /\ a.tenant_id = API_KEYS[resp.key]
                         /\ a.name # resp.req.name

\* C6: every association row joins an existing agent and an existing tool
\* of the same tenant.
C6_ToolsOfOwnTenant ==
    \A p \in agent_tools :
        \E a \in agents, t \in tools :
            a.id = p[1] /\ t.id = p[2] /\ a.tenant_id = t.tenant_id
\* a create_agent that named another tenant's tool was refused while some
\* agent has a tool
C6_Witness ==
    /\ resp.op = "create_agent" /\ resp.status = 400
    /\ \E t \in tools : /\ t.id \in Range(resp.req.tool_ids)
                        /\ t.tenant_id # API_KEYS[resp.key]
    /\ agent_tools # {}

\* C10: a successful delete_tool removes the tool and its association rows
\* and nothing else: the agents, their other tools and the executions stay.
C10_DeleteToolFrame ==
    [][(resp'.op = "delete_tool" /\ resp'.status = 200) =>
        /\ tools' = {t \in tools : t.id # resp'.id}
        /\ agent_tools' = {p \in agent_tools : p[2] # resp'.id}
        /\ agents' = agents
        /\ executions' = executions]_vars
\* a tool was deleted while both agents keep another tool and a run is on record
C10_Witness ==
    /\ resp.op = "delete_tool" /\ resp.status = 200
    /\ Cardinality(agents) = 2
    /\ \A a \in agents : ToolsOf(a.id) # {}
    /\ executions # <<>>

(***************************************************************************)
(* Properties of the execution history                                     *)
(***************************************************************************)
\* C11: the execution history is append-only: every step keeps every record
\* that exists, with all its fields and at its place; records are only added
\* at the end, whatever happens to the agent or the tools they came from.
C11_HistoryAppendOnly ==
    [][/\ Len(executions') >= Len(executions)
       /\ SubSeq(executions', 1, Len(executions)) = executions]_vars
\* an agent was deleted after a second run, and the agent of the first record
\* is gone while both records are on file
C11_Witness ==
    /\ resp.op = "delete_agent" /\ resp.status = 200
    /\ Len(executions) = 2
    /\ ~\E a \in agents : a.id = executions[1].agent_id
    /\ executions[1].prompt # executions[2].prompt

(***************************************************************************)
(* Properties of the limiter's buckets                                     *)
(***************************************************************************)
\* the step is a statement of a check_rate_limit call made for the tenant
StepOf(tenant_id) ==
    \E th \in Threads :
        /\ threads'[th] # threads[th]
        /\ tenant_id \in {threads[th].tenant_id, threads'[th].tenant_id}

\* C12: the buckets are partitioned by tenant: in every interleaving, a
\* statement of a call made for tenant a, admitted or refused, leaves the
\* stored list of every other tenant b as it was, and with it b's history,
\* b's calls in progress and the answer a call of b would get.
C12_BucketsPartitioned ==
    [][\A a \in Tenants : \A b \in Tenants \ {a} :
        StepOf(a) =>
            /\ Get(b)' = Get(b)
            /\ admitted'[b] = admitted[b]
            /\ last_request'[b] = last_request[b]
            /\ \A th \in Threads :
                   threads[th].tenant_id = b => threads'[th] = threads[th]
            /\ RateLimited(b)' = RateLimited(b)]_vars
\* a call of one tenant was refused while a call of the other tenant, which
\* has admissions left, is between its comparison and its write
C12_Witness ==
    /\ resp.op = "check_rate_limit" /\ resp.status = 429
    /\ \E b \in Tenants \ {resp.req} :
          /\ Len(Get(b)) \in 1..(RATE_LIMIT - 1)
          /\ \E th \in Threads : threads[th].pc = "save" /\ threads[th].tenant_id = b

(***************************************************************************)
(* Properties of update_agent                                              *)
(***************************************************************************)
\* the ids of the tools attached to the agent in the association rows
LinkedIds(links, agent_id) == {p[2] : p \in {q \in links : q[1] = agent_id}}

\* C13: a successful update_agent keeps each of name, role and description
\* that the request omits and sets each one it gives; it leaves the agent's
\* tools alone when tool_ids is omitted and otherwise makes them exactly the
\* tools named by tool_ids (none for the empty list); nothing else changes.
C13_PartialUpdate ==
    [][(resp'.op = "update_agent" /\ resp'.status = 200) =>
        LET old == CHOOSE a \in agents : a.id = resp'.id
            new == CHOOSE a \in agents' : a.id = resp'.id
            u == resp'.req
        IN /\ new.id = old.id /\ new.tenant_id = old.tenant_id
           /\ new.name = (IF u.name = None THEN old.name ELSE u.name)
           /\ new.role = (IF u.role = None THEN old.role ELSE u.role)
           /\ new.description =
                 (IF u.description = None THEN old.description ELSE u.description)
           /\ LinkedIds(agent_tools', resp'.id) =
                 (IF u.tool_ids = <<>> THEN LinkedIds(agent_tools, resp'.id)
                  ELSE {u.tool_ids[1][i] : i \in 1..Len(u.tool_ids[1])})
           /\ agents' \ {new} = agents \ {old}
           /\ {p \in agent_tools' : p[1] # resp'.id}
                 = {p \in agent_tools : p[1] # resp'.id}
           /\ tools' = tools
           /\ executions' = executions]_vars
\* an update that gave only tool_ids [2] succeeded on an agent that an
\* earlier update had renamed: the name is kept and tool 2 is its only tool
C13_Witness ==
    /\ resp.op = "update_agent" /\ resp.status = 200
    /\ resp.req.name = None /\ resp.req.tool_ids = <<(<<2>>)>>
    /\ resp.body.agent.name = "Math Bot"
    /\ LinkedIds(agent_tools, resp.id) = {2}
    /\ Cardinality({t \in tools : t.tenant_id = API_KEYS[resp.key]}) = 2

(***************************************************************************)
(* Properties of the authentication                                        *)
(***************************************************************************)
\* C14: every operation authenticates first: a request without the header
\* is answered 422 and a request with a key that is not in the table 401,
\* and in both cases the store and the rate limiter are left as they were;
\* a request with a key of the table gets neither status.
C14_AuthenticatesFirst ==
    [][resp'.op # "start" =>
        /\ resp'.key = "<absent>" =>
              resp'.status = 422 /\ UNCHANGED <<store, limiter>>
        /\ resp'.key \notin {"<absent>", "sk-key-123", "sk-key-456", "sk-key-admin"} =>
              resp'.status = 401 /\ UNCHANGED <<store, limiter>>
        /\ resp'.key \in {"sk-key-123", "sk-key-456", "sk-key-admin"} =>
              resp'.status \notin {401, 422}]_vars
\* a run without the header was answered 422 while the caller it would have
\* counted against has an agent, an admission on record and one execution
C14_Witness ==
    /\ resp.op = "run_agent" /\ resp.key = "<absent>" /\ resp.status = 422
    /\ agents # {} /\ Len(executions) = 1
    /\ Len(Get("tenant-1")) \in 1..(RATE_LIMIT - 1)

(***************************************************************************)
(* Properties of the response simulator                                    *)
(***************************************************************************)
\* the four sentences, by length(prompt) mod 4
Canned(k) ==
    CASE k = 0 -> "I have analyzed the data and found significant trends."
      [] k = 1 -> "Based on your request, I have executed the necessary tools."
      [] k = 2 -> "Here is the summary you requested based on the provided context."
      [] k = 3 -> "The calculation is complete. The result is within expected parameters."

\* C15: mock_llm_call(prompt, model) returns "[{model} Response]: " followed
\* by the sentence at index length(prompt) mod 4, and a call with a prompt of
\* the same length and the same model as the call before it returns the same
\* string, whatever the two prompts contain.
C15_SimulatorIsPure ==
    /\ [](resp.op = "mock_llm_call" =>
            resp.body = "[" \o resp.req.model \o " Response]: "
                            \o Canned(Len(resp.req.prompt) % 4))
    /\ [][(/\ resp.op = "mock_llm_call" /\ resp'.op = "mock_llm_call"
           /\ Len(resp'.req.prompt) = Len(resp.req.prompt)
           /\ resp'.req.model = resp.req.model) =>
               resp'.body = resp.body]_vars
\* a call with a five-letter prompt that mixes the letters returned the
\* sentence of index 1
C15_Witness ==
    /\ resp.op = "mock_llm_call" /\ resp.req.prompt = "abbab"
    /\ resp.req.model = "gemini-3"
    /\ resp.body = "[gemini-3 Response]: "
                       \o "Based on your request, I have executed the necessary tools."

(***************************************************************************)
(* Properties of the window's edge and of the stored list                  *)
(***************************************************************************)
\* the tenant's last RATE_LIMIT admitted calls were all admitted at time t0
FilledAt(tenant_id, t0) ==
    LET a == admitted[tenant_id]
    IN /\ Len(a) >= RATE_LIMIT
       /\ \A i \in (Len(a) - RATE_LIMIT + 1)..Len(a) : a[i] = t0

\* C16: a timestamp that is exactly TIME_WINDOW old counts as expired: a
\* tenant whose last RATE_LIMIT calls were admitted at t0 is refused at any
\* time before t0 + TIME_WINDOW and admitted at t0 + TIME_WINDOW and later.
C16_BoundaryExpired ==
    [][\A tenant_id \in Tenants :
        (/\ Called(tenant_id)
         /\ admitted[tenant_id] # <<>>
         /\ FilledAt(tenant_id, admitted[tenant_id][Len(admitted[tenant_id])])) =>
            LET t0 == admitted[tenant_id][Len(admitted[tenant_id])]
            IN IF now < t0 + TIME_WINDOW
               THEN resp'.status = 429 /\ admitted' = admitted
               ELSE /\ resp'.status = 200
                    /\ admitted'[tenant_id] = Append(admitted[tenant_id], now)
                    /\ now = t0 + TIME_WINDOW => Get(tenant_id)' = <<now>>]_vars
\* five calls admitted at 20, and the sixth admitted at exactly 80
C16_Witness ==
    /\ resp.op = "check_rate_limit" /\ resp.status = 200
    /\ admitted[resp.req] = <<20, 20, 20, 20, 20, 80>>
    /\ now = 80 /\ last_request[resp.req] = 80
    /\ Get(resp.req) = <<80>>

\* C17: a refused call records nothing: the stored list and the history of
\* admissions are what they were, so a call is admitted whenever fewer than
\* RATE_LIMIT admitted calls are less than TIME_WINDOW old, however many
\* calls were refused in between.
C17_RejectRecordsNothing ==
    [][\A tenant_id \in Tenants :
        Called(tenant_id) =>
            /\ resp'.status = 429 =>
                  request_timestamps' = request_timestamps /\ admitted' = admitted
            /\ ~Saturated(tenant_id) => resp'.status = 200]_vars
\* a tenant admitted five times at 0 was refused at 40 and then admitted at
\* 60, the stored list holding the admitted call only
C17_Witness ==
    /\ resp.op = "check_rate_limit" /\ resp.status = 429
    /\ now = 40 /\ last_request[resp.req] = 40
    /\ Get(resp.req) = <<0, 0, 0, 0, 0>>
    /\ admitted[resp.req] = <<0, 0, 0, 0, 0>>

\* C18: right after a call is admitted at time now, the tenant's stored list
\* holds only timestamps t with now - TIME_WINDOW < t <= now, its last entry
\* is now, and it has between 1 and RATE_LIMIT entries.
C18_StoredListAfterAdmission ==
    [][\A tenant_id \in Tenants :
        (Called(tenant_id) /\ resp'.status = 200) =>
            LET s == Get(tenant_id)'
            IN /\ Len(s) \in 1..RATE_LIMIT
               /\ s[Len(s)] = now
               /\ \A i \in 1..Len(s) : now - TIME_WINDOW < s[i] /\ s[i] <= now]_vars
\* an admission filled the list after it dropped an expired timestamp
C18_Witness ==
    /\ resp.op = "check_rate_limit" /\ resp.status = 200
    /\ Len(Get(resp.req)) = RATE_LIMIT
    /\ Get(resp.req)[1] < Get(resp.req)[RATE_LIMIT]
    /\ Get(resp.req)[RATE_LIMIT] = now
    /\ Len(admitted[resp.req]) > RATE_LIMIT
    /\ admitted[resp.req][1] <= now - TIME_WINDOW

(***************************************************************************)
(* Properties of a run that fails after its admission                      *)
(***************************************************************************)
\* C20: a run with a supported model that the limiter admits and that then
\* fails with 404 has recorded its timestamp; RATE_LIMIT such runs, and no
\* successful one, make the tenant's next run of an agent it owns fail with
\* 429 within the window.
C20_FailedRunsCount ==
    [][(resp'.op = "run_agent" /\ Ran(resp')) =>
        LET tenant_id == API_KEYS[resp'.key]
        IN /\ resp'.status = 404 =>
                 /\ admitted'[tenant_id] = Append(admitted[tenant_id], now)
                 /\ tenant_id \in DOMAIN request_timestamps'
                 /\ request_timestamps'[tenant_id] # <<>>
                 /\ request_timestamps'[tenant_id][Len(request_timestamps'[tenant_id])]
                       = now
                 /\ executions' = executions
           /\ (/\ executions = <<>>
               /\ Len(admitted[tenant_id]) = RATE_LIMIT
               /\ \A i \in 1..RATE_LIMIT : now - admitted[tenant_id][i] < TIME_WINDOW
               /\ resp'.req.model \in {"gpt-4o", "gemini-3"}
               /\ Owns(tenant_id, resp'.id)) =>
                 resp'.status = 429 /\ executions' = <<>>]_vars
\* after five admitted runs that all failed, the run of an agent the tenant
\* owns, with a supported model, was refused by the limiter
C20_Witness ==
    /\ resp.op = "run_agent" /\ resp.status = 429
    /\ resp.req.model = "gpt-4o"
    /\ Owns(API_KEYS[resp.key], resp.id)
    /\ executions = <<>>
    /\ Len(admitted[API_KEYS[resp.key]]) = RATE_LIMIT
    /\ Len(Get(API_KEYS[resp.key])) = RATE_LIMIT

C21_StoredListBounded ==
    /\ \A tenant_id \in Tenants : Len(Get(tenant_id)) <= RATE_LIMIT
    /\ \A th \in Threads :
          threads[th].pc = "save" => Len(threads[th].timestamps) < RATE_LIMIT
\* six calls were admitted at one time, a write having lost the timestamp of
\* another call, and the stored list is full
C21_Witness ==
    \E tenant_id \in Tenants :
        /\ Len(admitted[tenant_id]) = RATE_LIMIT + 1
        /\ admitted[tenant_id][1] = admitted[tenant_id][RATE_LIMIT + 1]
        /\ Len(Get(tenant_id)) = RATE_LIMIT
        /\ \A th \in Threads : threads[th].pc = "idle"

(***************************************************************************)
(* Properties of the tool_ids check                                        *)
(***************************************************************************)
\* the tool_ids list of a create_agent or update_agent request
ListOf(r) == IF r.op = "create_agent" THEN r.req.tool_ids ELSE r.req.tool_ids[1]
\* the tenant's tools whose id occurs in the list
OwnNamed(tenant_id, ids) ==
    {t \in tools : t.tenant_id = tenant_id /\ \E i \in 1..Len(ids) : ids[i] = t.id}
Distinct(ids) == \A i, j \in 1..Len(ids) : ids[i] = ids[j] => i = j

\* C22: create_agent and update_agent accept a non-empty tool_ids list when
\* the number of the tenant's tools whose id occurs in it equals its length,
\* and refuse it otherwise with 400 "One or more tools not found": a list
\* that repeats an id is refused even when all its ids name tools of the
\* tenant, and a list of distinct ids is accepted exactly when every id
\* names a tool of the tenant.
C22_ToolIdsAcceptance ==
    [][(/\ resp'.op \in {"create_agent", "update_agent"}
        /\ resp'.status \in {200, 400}
        /\ ListOf(resp') # <<>>) =>
        LET tenant_id == API_KEYS[resp'.key]
            ids == ListOf(resp')
            own == OwnNamed(tenant_id, ids)
            allOwn == \A i \in 1..Len(ids) :
                          \E t \in tools : t.id = ids[i] /\ t.tenant_id = tenant_id
        IN /\ resp'.status = 200 <=> Cardinality(own) = Len(ids)
           /\ resp'.status = 400 => resp'.body = "One or more tools not found"
           /\ ~Distinct(ids) => resp'.status = 400
           /\ Distinct(ids) => (resp'.status = 200 <=> allOwn)]_vars
\* an update whose list repeats the id of a tool the tenant owns, and names
\* only tools the tenant owns, was refused
C22_Witness ==
    /\ resp.op = "update_agent" /\ resp.status = 400
    /\ resp.req.tool_ids = <<(<<2, 1, 2>>)>>
    /\ \A id \in {1, 2} :
          \E t \in tools : t.id = id /\ t.tenant_id = API_KEYS[resp.key]

====
